---- MODULE Spec2Model ----
(***************************************************************************)
(* Model of backend/ml/extract_resume.py: the resume-extraction pipeline.  *)
(*                                                                         *)
(* A Python str is a sequence of one-character strings.  The regular       *)
(* expressions of the source are written as lists of alternatives, each a  *)
(* list of greedy quantified character classes and \b assertions, and are  *)
(* run by a backtracking matcher with the semantics of Python's re.        *)
(***************************************************************************)
EXTENDS Integers, Sequences, FiniteSets, TLC

VARIABLES
    pc,           \* position of the process in the script
    nlp,          \* the module-level recognizer: "unloaded", "loaded", "failed"
    raw_text,     \* __main__: what sys.stdin.read() returned (NotRead before)
    invoked,      \* the extractors extract_resume_data has called, in order
    locals,       \* extract_resume_data: contact, skills, experience, education
    fault,        \* the exception caught by extract_resume_data's except, if any
    result,       \* __main__: the value extract_resume_data returned
    stdout,       \* the JSON objects printed to stdout, in order
    stderr,       \* the JSON objects printed to stderr, in order
    exit_status,  \* the status the process ended with (-1 while it runs)
    call,         \* a function called on its own: its name and arguments
    frame         \* that function's locals and return value, once it returned

vars == <<pc, nlp, raw_text, invoked, locals, fault, result, stdout, stderr,
          exit_status, call, frame>>

\* Python's None where a str is expected, told apart from every str
None == <<"None">>
\* a variable that holds an object (a dict) and has not been assigned
Unset == [unset |-> TRUE]
\* raw_text before sys.stdin.read() returned
NotRead == <<"NotRead">>

----------------------------------------------------------------------------
(* Strings and character classes                                           *)

\* F(v), with v evaluated once, before F is applied
Let(v, F(_)) == CHOOSE r \in {F(x) : x \in {v}} : TRUE

Chars(s) == [i \in 1..Len(s) |-> SubSeq(s, i, i)]

UpperLetters == Chars("ABCDEFGHIJKLMNOPQRSTUVWXYZ")
LowerLetters == Chars("abcdefghijklmnopqrstuvwxyz")
Upper == {UpperLetters[i] : i \in 1..26}
Lower == {LowerLetters[i] : i \in 1..26}
Digit == {"0", "1", "2", "3", "4", "5", "6", "7", "8", "9"}
Alnum == Upper \cup Lower \cup Digit
WordChar == Alnum \cup {"_"}
Space == {" ", "\t", "\n", "\r", "\f"}

LowerOf ==
    [c \in Upper |-> LowerLetters[CHOOSE i \in 1..26 : UpperLetters[i] = c]]

\* str.lower() on one character
LowerChar(c) == IF c \in Upper THEN LowerOf[c] ELSE c

\* str.lower()
lower(s) == Let(s, LAMBDA v : [i \in 1..Len(v) |-> LowerChar(v[i])])

\* s[a:b] with 0-based a, b as in Python (0 <= a)
Slice(s, a, b) ==
    LET hi == IF b > Len(s) THEN Len(s) ELSE b
    IN  IF a >= hi THEN <<>> ELSE SubSeq(s, a + 1, hi)

Min(a, b) == IF a < b THEN a ELSE b

\* the least element of a non-empty set of integers
MinOf(S) == CHOOSE x \in S : \A y \in S : x <= y

\* str.strip(): drop leading and trailing whitespace
strip(s) ==
    Let({i \in 1..Len(s) : s[i] \notin Space},
        LAMBDA inked :
            IF inked = {} THEN <<>>
            ELSE SubSeq(s, CHOOSE a \in inked : \A i \in inked : a <= i,
                           CHOOSE b \in inked : \A i \in inked : b >= i))

----------------------------------------------------------------------------
(* Regular expressions                                                     *)

\* a greedy quantified character class: cls{lo,hi}
Rep(cls, lo, hi) == [k |-> "set", cls |-> cls, lo |-> lo, hi |-> hi, w |-> <<>>]
One(cls) == Rep(cls, 1, 1)
Opt(cls) == Rep(cls, 0, 1)
\* cls+ and cls*: no text of the model is longer than Unbounded
Unbounded == 100000
Plus(cls) == Rep(cls, 1, Unbounded)
Star(cls) == Rep(cls, 0, Unbounded)
\* the assertion \b
WB == [k |-> "wb", cls |-> {}, lo |-> 0, hi |-> 0, w |-> <<>>]
\* a literal word, and the same under re.IGNORECASE
Lit(w) == [k |-> "lit", cls |-> {}, lo |-> 0, hi |-> 0, w |-> w]
LitI(w) == [k |-> "liti", cls |-> {}, lo |-> 0, hi |-> 0, w |-> lower(w)]
\* (?:w1|w2|...) under re.IGNORECASE, for words of one length n, given in
\* lower case as the set ws
AnyLitI(ws, n) == [k |-> "words", cls |-> ws, lo |-> n, hi |-> n, w |-> <<>>]

IsWordAt(t, p) == p >= 1 /\ p <= Len(t) /\ t[p] \in WordChar

\* \b holds before position p
Boundary(t, p) == IsWordAt(t, p - 1) # IsWordAt(t, p)

\* the literal w stands at position p (under re.IGNORECASE when ci; w is
\* then in lower case)
LitAt(t, p, w, ci) ==
    /\ p + Len(w) - 1 <= Len(t)
    /\ \A i \in 1..Len(w) :
          (IF ci THEN LowerChar(t[p + i - 1]) ELSE t[p + i - 1]) = w[i]

\* the length of the longest run (at most hi) of characters of cls at p
Run(t, p, cls, hi) ==
    LET lim == Min(hi, Len(t) - p + 1)
    IN  IF lim <= 0 THEN 0
        ELSE IF \A j \in 0..(lim - 1) : t[p + j] \in cls THEN lim
        ELSE CHOOSE n \in 0..(lim - 1) :
                /\ t[p + n] \notin cls
                /\ \A j \in 0..(n - 1) : t[p + j] \in cls

\* MatchEnd: the position after the match of pat[k..] that starts at p, by
\* greedy repetition with backtracking; 0 when there is none
RECURSIVE MatchEnd(_, _, _, _)
RECURSIVE TryRep(_, _, _, _, _)
TryRep(t, p, pat, k, n) ==
    IF n < pat[k].lo THEN 0
    ELSE Let(MatchEnd(t, p + n, pat, k + 1),
             LAMBDA e : IF e # 0 THEN e ELSE TryRep(t, p, pat, k, n - 1))

MatchEnd(t, p, pat, k) ==
    IF k > Len(pat) THEN p
    ELSE IF pat[k].k = "wb"
         THEN IF Boundary(t, p) THEN MatchEnd(t, p, pat, k + 1) ELSE 0
    ELSE IF pat[k].k \in {"lit", "liti"}
         THEN IF LitAt(t, p, pat[k].w, pat[k].k = "liti")
              THEN MatchEnd(t, p + Len(pat[k].w), pat, k + 1) ELSE 0
    ELSE IF pat[k].k = "words"
         THEN IF /\ p + pat[k].lo - 1 <= Len(t)
                 /\ lower(SubSeq(t, p, p + pat[k].lo - 1)) \in pat[k].cls
              THEN MatchEnd(t, p + pat[k].lo, pat, k + 1) ELSE 0
    ELSE Let(Run(t, p, pat[k].cls, pat[k].hi),
             LAMBDA n : TryRep(t, p, pat, k, n))

\* whether the first item of pat can match at p: when it cannot, pat has
\* no match at p
Starts(t, p, pat) ==
    IF pat[1].k = "wb" THEN Boundary(t, p)
    ELSE IF p > Len(t) THEN FALSE
    ELSE IF pat[1].k = "lit" THEN t[p] = pat[1].w[1]
    ELSE IF pat[1].k = "liti" THEN LowerChar(t[p]) = pat[1].w[1]
    ELSE IF pat[1].k = "words" THEN t[p] \in Upper \cup Lower
    ELSE pat[1].lo = 0 \/ t[p] \in pat[1].cls

\* a regex is a list of alternatives, tried in order at each position
RECURSIVE MatchAlt(_, _, _, _)
MatchAlt(t, p, re, a) ==
    IF a > Len(re) THEN 0
    ELSE IF ~Starts(t, p, re[a]) THEN MatchAlt(t, p, re, a + 1)
    ELSE Let(MatchEnd(t, p, re[a], 1),
             LAMBDA e : IF e # 0 THEN e ELSE MatchAlt(t, p, re, a + 1))

MatchAt(t, p, re) == MatchAlt(t, p, re, 1)

\* re.search: the 1-based position of the leftmost match at or after p, or 0
Search(t, re, p) ==
    Let({q \in p..Len(t) : MatchAt(t, q, re) # 0},
        LAMBDA hits : IF hits = {} THEN 0 ELSE MinOf(hits))

\* re.findall: the non-overlapping matches from p on, left to right, each
\* as its first position s and the position e after its last
RECURSIVE Successive(_, _, _, _)
Successive(t, re, hits, p) ==
    Let({q \in hits : q >= p},
        LAMBDA rest :
            IF rest = {} THEN <<>>
            ELSE Let(MinOf(rest),
                     LAMBDA s :
                         Let(MatchAt(t, s, re),
                             LAMBDA e : <<[s |-> s, e |-> e]>>
                                        \o Successive(t, re, rest, e))))

FindAll(t, re, p) ==
    Let({q \in p..Len(t) : MatchAt(t, q, re) # 0},
        LAMBDA hits : Successive(t, re, hits, p))

Matched(t, m) == SubSeq(t, m.s, m.e - 1)

----------------------------------------------------------------------------
(* extract_section                                                         *)

HeaderSkip == 50

ExperienceKeywords ==
    <<Chars("experience"), Chars("work history"), Chars("employment"),
      Chars("professional experience")>>

EducationKeywords ==
    <<Chars("education"), Chars("academic"), Chars("qualifications"),
      Chars("degree")>>

section_headers ==
    <<Chars("experience"), Chars("education"), Chars("skills"),
      Chars("projects"), Chars("certifications"), Chars("awards"),
      Chars("summary"), Chars("objective"), Chars("references")>>

\* rf'\b{keyword}\b'
KeywordPattern(keyword) == << <<WB, Lit(keyword), WB>> >>

\* rf'\n\s*\b{header}\b'
HeaderPattern(header) ==
    << <<One({"\n"}), Star(Space), WB, Lit(header), WB>> >>

\* a variant of FindStart that takes the keyword occurring first in the text
FindStartByPosition(text_lower, kws, i) ==
    Let({Search(text_lower, KeywordPattern(kws[j]), 1) : j \in i..Len(kws)} \ {0},
        LAMBDA firsts : IF firsts = {} THEN -1 ELSE MinOf(firsts) - 1)

\* a variant of FindStart whose start_pos is 0 when no keyword is found
RECURSIVE FindStartDefaultZero(_, _, _)
FindStartDefaultZero(text_lower, kws, i) ==
    IF i > Len(kws) THEN 0
    ELSE Let(Search(text_lower, KeywordPattern(kws[i]), 1),
             LAMBDA m : IF m # 0 THEN m - 1
                        ELSE FindStartDefaultZero(text_lower, kws, i + 1))

\* the loop over keywords: start_pos (0-based) of the first keyword, in
\* list order, that re.search finds in text_lower; -1 when none is found
RECURSIVE FindStart(_, _, _)
FindStart(text_lower, kws, i) ==
    IF i > Len(kws) THEN -1
    ELSE Let(Search(text_lower, KeywordPattern(kws[i]), 1),
             LAMBDA m : IF m # 0 THEN m - 1
                        ELSE FindStart(text_lower, kws, i + 1))

\* a variant of FindEnd that stops at the first header, in list order,
\* that is found
RECURSIVE FindEndFirstHeader(_, _, _, _)
FindEndFirstHeader(rest, start, i, end) ==
    IF i > Len(section_headers) THEN end
    ELSE Let(Search(rest, HeaderPattern(section_headers[i]), 1),
             LAMBDA m : IF m # 0 THEN start + HeaderSkip + (m - 1)
                        ELSE FindEndFirstHeader(rest, start, i + 1, end))

\* the loop over section_headers: end_pos after headers i.. have been tried
RECURSIVE FindEnd(_, _, _, _)
FindEnd(rest, start, i, end) ==
    IF i > Len(section_headers) THEN end
    ELSE Let(Search(rest, HeaderPattern(section_headers[i]), 1),
             LAMBDA m :
                 Let(IF m # 0 /\ start + HeaderSkip + (m - 1) < end
                     THEN start + HeaderSkip + (m - 1) ELSE end,
                     LAMBDA e : FindEnd(rest, start, i + 1, e)))

\* start_pos (0-based), or -1
SectionStart(t, kws) ==
    Let(lower(t), LAMBDA text_lower : FindStart(text_lower, kws, 1))

\* end_pos (0-based), given start_pos
SectionEnd(t, start) ==
    Let(Slice(lower(t), start + HeaderSkip, Len(t)),
        LAMBDA rest : FindEnd(rest, start, 1, Len(t)))

extract_section(t, kws) ==
    Let(SectionStart(t, kws),
        LAMBDA start : IF start = -1 THEN None
                       ELSE Slice(t, start, SectionEnd(t, start)))

----------------------------------------------------------------------------
(* The Entity Recognizer: nlp(text).  It is an external model; its answer  *)
(* to a call is an input of the caller: either it raises, or it returns    *)
(* doc.ents, a list of labelled spans.                                     *)

Ent(label, t) == [label_ |-> label, text |-> Chars(t)]

NerAnswers ==
    { [raises |-> TRUE,  ents |-> <<>>],
      [raises |-> FALSE, ents |-> <<>>],
      [raises |-> FALSE,
       ents |-> <<Ent("ORG", "Acme Corp"),
                  Ent("PERSON", "Dr Jane Q Public Doe Jr"),
                  Ent("PERSON", "Jane Doe")>>] }

\* [ent.text for ent in doc.ents if ent.label_ == label]
RECURSIVE EntsLabelled(_, _)
EntsLabelled(ents, label) ==
    IF ents = <<>> THEN <<>>
    ELSE (IF Head(ents).label_ = label THEN <<Head(ents).text>> ELSE <<>>)
         \o EntsLabelled(Tail(ents), label)

\* len(s.split()): the number of whitespace-separated tokens of s
TokenCount(s) ==
    Cardinality({p \in 1..Len(s) :
                    s[p] \notin Space /\ (p = 1 \/ s[p - 1] \in Space)})

\* what a function does: return a value, or raise
Return(v) == [raised |-> FALSE, value |-> v]
Raise(e) == [raised |-> TRUE, exc |-> e]
RecognizerError == "recognizer error"

----------------------------------------------------------------------------
(* extract_contact_info                                                    *)

MaxNameTokens == 4

\* r'\b[A-Za-z0-9._%+-]+@[A-Za-z0-9.-]+\.[A-Z|a-z]{2,}\b'
email_pattern ==
    << <<WB, Plus(Alnum \cup {".", "_", "%", "+", "-"}), One({"@"}),
         Plus(Alnum \cup {".", "-"}), One({"."}),
         Rep(Upper \cup Lower \cup {"|"}, 2, Unbounded), WB>> >>

\* [-.\s]
PhoneSep == {"-", "."} \cup Space

\* the three phone patterns, in the order of the list
phone_patterns ==
    << << <<Opt({"+"}), Rep(Digit, 1, 3), Opt(PhoneSep), Opt({"("}),
            Rep(Digit, 3, 3), Opt({")"}), Opt(PhoneSep), Rep(Digit, 3, 3),
            Opt(PhoneSep), Rep(Digit, 4, 4)>> >>,
       << <<Opt({"("}), Rep(Digit, 3, 3), Opt({")"}), Opt(PhoneSep),
            Rep(Digit, 3, 3), Opt(PhoneSep), Rep(Digit, 4, 4)>> >>,
       << <<Rep(Digit, 10, 10)>> >> >>

\* a variant of FirstPhone that takes the leftmost match of any pattern
FirstPhoneByPosition(t, i) ==
    Let({q \in 1..Len(t) :
            \E j \in i..Len(phone_patterns) : MatchAt(t, q, phone_patterns[j]) # 0},
        LAMBDA hits :
            IF hits = {} THEN None
            ELSE Let(MinOf(hits),
                     LAMBDA q :
                        Let(MinOf({j \in i..Len(phone_patterns) :
                                     MatchAt(t, q, phone_patterns[j]) # 0}),
                            LAMBDA j :
                                SubSeq(t, q, MatchAt(t, q, phone_patterns[j]) - 1))))

\* for pattern in phone_patterns: phones = re.findall(...); if phones: ... break
RECURSIVE FirstPhone(_, _)
FirstPhone(t, i) ==
    IF i > Len(phone_patterns) THEN None
    ELSE Let(FindAll(t, phone_patterns[i], 1),
             LAMBDA phones : IF phones # <<>> THEN Matched(t, phones[1])
                             ELSE FirstPhone(t, i + 1))

extract_phone(t) == FirstPhone(t, 1)

extract_email(t) ==
    Let(FindAll(t, email_pattern, 1),
        LAMBDA emails : IF emails # <<>> THEN Matched(t, emails[1]) ELSE None)

\* re.search(prefix + r'([a-zA-Z0-9-]+)', text, re.IGNORECASE), rebuilt as
\* the lower-case prefix followed by group(1)
ProfilePattern(prefix) == << <<LitI(prefix), Plus(Alnum \cup {"-"})>> >>

ProfileHandle(t, prefix) ==
    Let(Search(t, ProfilePattern(prefix), 1),
        LAMBDA s :
            IF s = 0 THEN None
            ELSE prefix \o SubSeq(t, s + Len(prefix),
                                  MatchAt(t, s, ProfilePattern(prefix)) - 1))

\* the first PERSON entity of at most 4 tokens
RECURSIVE FirstName(_)
FirstName(ents) ==
    IF ents = <<>> THEN None
    ELSE IF Head(ents).label_ = "PERSON"
            /\ TokenCount(Head(ents).text) <= MaxNameTokens
         THEN Head(ents).text
         ELSE FirstName(Tail(ents))

\* ner: the recognizer's answer to nlp(text[:500])
extract_contact_info(t, ner) ==
    IF ner.raises THEN Raise(RecognizerError)
    ELSE Return([email    |-> extract_email(t),
                 phone    |-> extract_phone(t),
                 name     |-> FirstName(ner.ents),
                 linkedin |-> ProfileHandle(t, Chars("linkedin.com/in/")),
                 github   |-> ProfileHandle(t, Chars("github.com/"))])

----------------------------------------------------------------------------
(* extract_experience and extract_education                                *)

MinExperienceEntry == 20
MaxExperience == 5
TitleLen == 100
DescriptionLen == 500
MinEducationEntry == 10
MaxEducation == 3

\* re.split(sep, t) where sep matches the single character "\n" at p when
\* one of the alternatives of ahead matches at p + 1 (a lookahead): the
\* pieces of t between the matches
\* the k-th of the cuts; cut 0 is before the text and the cut after the
\* last is after it
Cut(t, cuts, k) ==
    IF k = 0 THEN 0
    ELSE IF k = Cardinality(cuts) + 1 THEN Len(t) + 1
    ELSE CHOOSE p \in cuts : Cardinality({q \in cuts : q <= p}) = k

SplitAt(t, ahead) ==
    Let({p \in 1..Len(t) : t[p] = "\n" /\ MatchAt(t, p + 1, ahead) # 0},
        LAMBDA cuts :
            [k \in 1..(Cardinality(cuts) + 1) |->
                Slice(t, Cut(t, cuts, k - 1), Cut(t, cuts, k) - 1)])

\* (?=\d{4}|\w+\s+\d{4})
ExperienceAhead ==
    << <<Rep(Digit, 4, 4)>>,
       <<Plus(WordChar), Plus(Space), Rep(Digit, 4, 4)>> >>

\* (?=\d{4}|Bachelor|Master|PhD|B\.) under re.IGNORECASE
EducationAhead ==
    << <<Rep(Digit, 4, 4)>>, <<LitI(Chars("Bachelor"))>>,
       <<LitI(Chars("Master"))>>, <<LitI(Chars("PhD"))>>,
       <<LitI(Chars("B."))>> >>

Months ==
    { Chars("jan"), Chars("feb"), Chars("mar"), Chars("apr"), Chars("may"),
      Chars("jun"), Chars("jul"), Chars("aug"), Chars("sep"), Chars("oct"),
      Chars("nov"), Chars("dec") }

\* r'((?:Jan|...|Dec)[a-z]*\.?\s+\d{4}|\d{4})' under re.IGNORECASE
date_pattern ==
    << <<AnyLitI(Months, 3), Star(Lower \cup Upper), Opt({"."}), Plus(Space),
         Rep(Digit, 4, 4)>>,
       <<Rep(Digit, 4, 4)>> >>

\* r'\b(19\d{2}|20\d{2})\b'
year_pattern ==
    << <<WB, Lit(Chars("19")), Rep(Digit, 2, 2), WB>>,
       <<WB, Lit(Chars("20")), Rep(Digit, 2, 2), WB>> >>

degrees ==
    <<Chars("Bachelor"), Chars("Master"), Chars("PhD"), Chars("B.Tech"),
      Chars("M.Tech"), Chars("B.S."), Chars("M.S."), Chars("BA"), Chars("MA"),
      Chars("MBA"), Chars("B.E."), Chars("M.E."), Chars("Associate")>>

\* needle in hay
Contains(hay, needle) ==
    \E p \in 1..(Len(hay) - Len(needle) + 1) :
        \A i \in 1..Len(needle) : hay[p + i - 1] = needle[i]

\* s.split('\n')[0]
FirstLine(s) ==
    Let(Search(s, << <<One({"\n"})>> >>, 1),
        LAMBDA n : IF n = 0 THEN s ELSE SubSeq(s, 1, n - 1))

\* " - ".join(date_matches[:2])
Duration(entry) ==
    Let(FindAll(entry, date_pattern, 1),
        LAMBDA date_matches :
            IF date_matches = <<>> THEN None
            ELSE IF Len(date_matches) = 1 THEN Matched(entry, date_matches[1])
            ELSE Matched(entry, date_matches[1]) \o Chars(" - ")
                 \o Matched(entry, date_matches[2]))

\* the body of the loop of extract_experience for an entry that is kept
FirstOrg(ner) ==
    Let(EntsLabelled(ner.ents, "ORG"),
        LAMBDA orgs : IF orgs # <<>> THEN orgs[1] ELSE None)

\* lines = entry.strip().split('\n'); lines[0].strip()[:100]
Title(entry) ==
    Let(strip(entry),
        LAMBDA stripped :
            Let(FirstLine(stripped),
                LAMBDA line : Let(strip(line),
                                  LAMBDA l : Slice(l, 0, TitleLen))))

\* entry.strip()[:500]
Description(entry) ==
    Let(strip(entry), LAMBDA stripped : Slice(stripped, 0, DescriptionLen))

ExperienceItem(entry, ner) ==
    [title       |-> Title(entry),
     company     |-> FirstOrg(ner),
     duration    |-> Duration(entry),
     description |-> Description(entry)]

\* not (len(entry.strip()) < 20)
ExperienceKept(entry) == ~(Len(strip(entry)) < MinExperienceEntry)

\* the loop of extract_experience over entries i..
RECURSIVE ExperienceLoop(_, _, _)
ExperienceLoop(es, ner, i) ==
    IF i > Len(es) THEN <<>>
    ELSE (IF ExperienceKept(es[i]) THEN <<ExperienceItem(es[i], ner)>> ELSE <<>>)
         \o ExperienceLoop(es, ner, i + 1)

\* a variant of ExperienceCap that keeps the last five: experience[-5:]
ExperienceCapLast(experience) ==
    IF Len(experience) <= MaxExperience THEN experience
    ELSE SubSeq(experience, Len(experience) - MaxExperience + 1, Len(experience))

\* experience[:5]
ExperienceCap(experience) == Slice(experience, 0, MaxExperience)

ExperienceEntries(t) ==
    Let(extract_section(t, ExperienceKeywords),
        LAMBDA exp_section : IF exp_section = None THEN <<>>
                             ELSE SplitAt(exp_section, ExperienceAhead))

\* the loop and the return, given the split candidates
ExperienceOf(es, ner) ==
    IF ner.raises /\ \E i \in 1..Len(es) : ExperienceKept(es[i])
    THEN Raise(RecognizerError)
    ELSE Return(Let(ExperienceLoop(es, ner, 1),
                    LAMBDA experience : ExperienceCap(experience)))

\* ner: the recognizer's answer to the calls nlp(entry[:300])
extract_experience(t, ner) ==
    Let(ExperienceEntries(t), LAMBDA es : ExperienceOf(es, ner))

\* for degree in degrees: if degree.lower() in entry.lower(): ... break
RECURSIVE FirstDegree(_, _)
FirstDegree(entry_lower, i) ==
    IF i > Len(degrees) THEN None
    ELSE IF Let(lower(degrees[i]), LAMBDA d : Contains(entry_lower, d))
         THEN degrees[i]
    ELSE FirstDegree(entry_lower, i + 1)

\* a variant of LastYear that takes the first match: year_matches[0]
FirstYearMatch(year_matches) == year_matches[1]

\* year_matches[-1]
LastYear(year_matches) == year_matches[Len(year_matches)]

EducationYear(entry) ==
    Let(FindAll(entry, year_pattern, 1),
        LAMBDA year_matches :
            IF year_matches # <<>> THEN Matched(entry, LastYear(year_matches))
            ELSE None)

\* the body of the loop of extract_education for an entry that is kept
EducationItem(entry, ner) ==
    [degree      |-> Let(lower(entry), LAMBDA entry_lower : FirstDegree(entry_lower, 1)),
     institution |-> FirstOrg(ner),
     year        |-> EducationYear(entry),
     field       |-> None]

\* not (len(entry.strip()) < 10)
EducationKept(entry) == ~(Len(strip(entry)) < MinEducationEntry)

RECURSIVE EducationLoop(_, _, _)
EducationLoop(es, ner, i) ==
    IF i > Len(es) THEN <<>>
    ELSE (IF EducationKept(es[i]) THEN <<EducationItem(es[i], ner)>> ELSE <<>>)
         \o EducationLoop(es, ner, i + 1)

EducationEntries(t) ==
    Let(extract_section(t, EducationKeywords),
        LAMBDA edu_section : IF edu_section = None THEN <<>>
                             ELSE SplitAt(edu_section, EducationAhead))

\* education[:3]
EducationCap(education) == Slice(education, 0, MaxEducation)

\* the loop and the return, given the split candidates
EducationOf(es, ner) ==
    IF ner.raises /\ \E i \in 1..Len(es) : EducationKept(es[i])
    THEN Raise(RecognizerError)
    ELSE Return(Let(EducationLoop(es, ner, 1),
                    LAMBDA education : EducationCap(education)))

\* ner: the recognizer's answer to the calls nlp(entry)
extract_education(t, ner) ==
    Let(EducationEntries(t), LAMBDA es : EducationOf(es, ner))

----------------------------------------------------------------------------
(* extract_skills                                                          *)

skill_keywords ==
    { Chars("Python"), Chars("JavaScript"), Chars("Java"), Chars("C++"),
      Chars("C#"), Chars("Ruby"), Chars("PHP"), Chars("Swift"),
      Chars("Kotlin"), Chars("Go"), Chars("Rust"), Chars("TypeScript"),
      Chars("R"), Chars("MATLAB"), Chars("Scala"), Chars("Perl"),
      Chars("HTML"), Chars("CSS"), Chars("React"), Chars("Angular"),
      Chars("Vue.js"), Chars("Node.js"), Chars("Express.js"),
      Chars("Django"), Chars("Flask"), Chars("FastAPI"),
      Chars("Spring Boot"), Chars("ASP.NET"), Chars("jQuery"),
      Chars("Next.js"), Chars("Nuxt.js"), Chars("Svelte"),
      Chars("Tailwind CSS"), Chars("Bootstrap"), Chars("SQL"),
      Chars("MySQL"), Chars("PostgreSQL"), Chars("MongoDB"), Chars("Redis"),
      Chars("Cassandra"), Chars("Oracle"), Chars("SQLite"),
      Chars("DynamoDB"), Chars("Firebase"), Chars("Neo4j"),
      Chars("MariaDB"), Chars("AWS"), Chars("Azure"), Chars("GCP"),
      Chars("Docker"), Chars("Kubernetes"), Chars("Jenkins"),
      Chars("CI/CD"), Chars("Terraform"), Chars("Ansible"), Chars("Git"),
      Chars("GitHub"), Chars("GitLab"), Chars("Bitbucket"), Chars("Linux"),
      Chars("Unix"), Chars("Shell Scripting"), Chars("Bash"),
      Chars("Machine Learning"), Chars("Deep Learning"),
      Chars("TensorFlow"), Chars("PyTorch"), Chars("Keras"),
      Chars("Scikit-learn"), Chars("Pandas"), Chars("NumPy"), Chars("NLP"),
      Chars("Computer Vision"), Chars("AI"), Chars("Data Analysis"),
      Chars("Statistics"), Chars("Tableau"), Chars("Power BI"),
      Chars("Spark"), Chars("Android"), Chars("iOS"), Chars("React Native"),
      Chars("Flutter"), Chars("Xamarin"), Chars("REST API"),
      Chars("GraphQL"), Chars("Microservices"), Chars("Agile"),
      Chars("Scrum"), Chars("JIRA"), Chars("Testing"),
      Chars("Unit Testing"), Chars("Jest"), Chars("Pytest"),
      Chars("Selenium") }

\* the vocabulary terms whose lower-case form occurs in text.lower(); the
\* list(set(...)) of the source has no defined order, so the value is a set
extract_skills(t) ==
    Let(lower(t),
        LAMBDA text_lower :
            {skill \in skill_keywords :
                Let(lower(skill), LAMBDA s : Contains(text_lower, s))})

----------------------------------------------------------------------------
(* The script: module load, then __main__                                  *)

MinInputLen == 50

\* the number of lines a document of the model is made of, at most
MaxDocLines == 2

DocLines ==
    { Chars("Jane Doe jane.doe@example.com +1 555 123 4567\n"),
      Chars("Experience\n2020 Engineer at Acme Corp using Python\n"),
      Chars("Education\nBachelor of Science, MIT 2015 - 2019\n"),
      Chars("Experienced in SQL; holds degrees\n"),
      Chars("Skills\nDocker, AWS and Go\n") }

\* the texts made of n lines of lines
RECURSIVE TextsOf(_, _)
TextsOf(lines, n) ==
    IF n = 0 THEN {<<>>}
    ELSE {t \o l : t \in TextsOf(lines, n - 1), l \in lines}

TextsUpTo(lines, n) == UNION {TextsOf(lines, k) : k \in 0..n}

Documents == TextsUpTo(DocLines, MaxDocLines)

\* a variant of TooShort that only rejects the empty input
TooShortEmptyOnly(t) == t = <<>>

\* not raw_text or len(raw_text) < 50
TooShort(t) == t = <<>> \/ Len(t) < MinInputLen

Init ==
    /\ pc = "load"
    /\ nlp = "unloaded"
    /\ raw_text = NotRead
    /\ invoked = <<>>
    /\ locals = Unset
    /\ fault = Unset
    /\ result = Unset
    /\ stdout = <<>>
    /\ stderr = <<>>
    /\ exit_status = -1
    /\ call = Unset
    /\ frame = Unset

\* sys.exit(status)
Exit(status) == pc' = "exited" /\ exit_status' = status

\* a variant of LoadRecognizer whose OSError handler reports and goes on
LoadRecognizerNoExit ==
    /\ pc = "load"
    /\ \E outcome \in {"loaded", "OSError", "uncaught"} :
          IF outcome = "loaded"
          THEN nlp' = "loaded" /\ pc' = "main" /\ UNCHANGED <<exit_status, stderr>>
          ELSE IF outcome = "OSError"
          THEN /\ nlp' = "failed"
               /\ stderr' = Append(stderr, [error |-> "spaCy model not found"])
               /\ pc' = "main"
               /\ UNCHANGED exit_status
          ELSE nlp' = "failed" /\ Exit(1) /\ UNCHANGED stderr
    /\ UNCHANGED <<raw_text, invoked, locals, fault, result, stdout, call, frame>>

\* nlp = spacy.load(...): it loads; or raises OSError, which is reported on
\* stderr before sys.exit(1); or raises something else, which nothing
\* catches, so the interpreter prints a traceback and ends with status 1
LoadRecognizer ==
    /\ pc = "load"
    /\ \E outcome \in {"loaded", "OSError", "uncaught"} :
          IF outcome = "loaded"
          THEN nlp' = "loaded" /\ pc' = "main" /\ UNCHANGED <<exit_status, stderr>>
          ELSE /\ nlp' = "failed"
               /\ stderr' = IF outcome = "OSError"
                            THEN Append(stderr, [error |-> "spaCy model not found"])
                            ELSE stderr
               /\ Exit(1)
    /\ UNCHANGED <<raw_text, invoked, locals, fault, result, stdout, call, frame>>

\* the except clause of __main__
TopLevelFault(e) ==
    /\ stderr' = Append(stderr, [error |-> e, skipped |-> TRUE])
    /\ Exit(1)

\* raw_text = sys.stdin.read() and the length check; the read raises when
\* stdin does not decode
ReadInput ==
    /\ pc = "main"
    /\ \/ /\ TopLevelFault("stdin does not decode")
          /\ UNCHANGED <<raw_text, stdout>>
       \/ \E t \in Documents :
             /\ raw_text' = t
             /\ IF TooShort(t)
                THEN /\ stdout' = Append(stdout, [error   |-> "Input text too short",
                                                  skipped |-> TRUE])
                     /\ Exit(1)
                ELSE /\ pc' = "contact"
                     /\ UNCHANGED <<stdout, exit_status>>
             /\ UNCHANGED stderr
    /\ UNCHANGED <<nlp, invoked, locals, fault, result, call, frame>>

\* a variant of Caught whose error result does not say skipped
CaughtNotSkipped(site, e) ==
    /\ fault' = [site |-> site, exc |-> e]
    /\ result' = [error   |-> e,
                  skipped |-> FALSE,
                  reason  |-> "Extraction failed: " \o e]
    /\ pc' = "print"
    /\ UNCHANGED locals

\* the except clause of extract_resume_data
Caught(site, e) ==
    /\ fault' = [site |-> site, exc |-> e]
    /\ result' = [error   |-> e,
                  skipped |-> TRUE,
                  reason  |-> "Extraction failed: " \o e]
    /\ pc' = "print"
    /\ UNCHANGED locals

\* contact = extract_contact_info(text)
CallContact ==
    /\ pc = "contact"
    /\ invoked' = Append(invoked, "contact")
    /\ \E ner \in NerAnswers :
          \E r \in {extract_contact_info(raw_text, ner)} :
              IF r.raised THEN Caught("contact", r.exc)
              ELSE /\ locals' = [contact |-> r.value]
                   /\ pc' = "skills"
                   /\ UNCHANGED <<fault, result>>
    /\ UNCHANGED <<nlp, raw_text, stdout, stderr, exit_status, call, frame>>

\* skills = extract_skills(text)
CallSkills ==
    /\ pc = "skills"
    /\ invoked' = Append(invoked, "skills")
    /\ locals' = [contact |-> locals.contact, skills |-> extract_skills(raw_text)]
    /\ pc' = "experience"
    /\ UNCHANGED <<nlp, raw_text, fault, result, stdout, stderr, exit_status,
                   call, frame>>

\* experience = extract_experience(text)
CallExperience ==
    /\ pc = "experience"
    /\ invoked' = Append(invoked, "experience")
    /\ \E ner \in NerAnswers :
          \E r \in {extract_experience(raw_text, ner)} :
              IF r.raised THEN Caught("experience", r.exc)
              ELSE /\ locals' = [contact    |-> locals.contact,
                                 skills     |-> locals.skills,
                                 experience |-> r.value]
                   /\ pc' = "education"
                   /\ UNCHANGED <<fault, result>>
    /\ UNCHANGED <<nlp, raw_text, stdout, stderr, exit_status, call, frame>>

\* education = extract_education(text)
CallEducation ==
    /\ pc = "education"
    /\ invoked' = Append(invoked, "education")
    /\ \E ner \in NerAnswers :
          \E r \in {extract_education(raw_text, ner)} :
              IF r.raised THEN Caught("education", r.exc)
              ELSE /\ locals' = [contact    |-> locals.contact,
                                 skills     |-> locals.skills,
                                 experience |-> locals.experience,
                                 education  |-> r.value]
                   /\ pc' = "build"
                   /\ UNCHANGED <<fault, result>>
    /\ UNCHANGED <<nlp, raw_text, stdout, stderr, exit_status, call, frame>>

\* a variant of BuildResult that leaves the summary out
BuildResultNoSummary ==
    /\ pc = "build"
    /\ result' = [contact    |-> locals.contact,
                  skills     |-> locals.skills,
                  experience |-> locals.experience,
                  education  |-> locals.education]
    /\ pc' = "print"
    /\ UNCHANGED <<nlp, raw_text, invoked, locals, fault, stdout, stderr,
                   exit_status, call, frame>>

\* result = {...}; return result
BuildResult ==
    /\ pc = "build"
    /\ result' = [contact    |-> locals.contact,
                  skills     |-> locals.skills,
                  experience |-> locals.experience,
                  education  |-> locals.education,
                  summary    |-> [totalSkills     |-> Cardinality(locals.skills),
                                  totalExperience |-> Len(locals.experience),
                                  totalEducation  |-> Len(locals.education)]]
    /\ pc' = "print"
    /\ UNCHANGED <<nlp, raw_text, invoked, locals, fault, stdout, stderr,
                   exit_status, call, frame>>

\* print(json.dumps(result, indent=2, ensure_ascii=False)); the print raises
\* when stdout cannot encode the text
PrintResult ==
    /\ pc = "print"
    /\ \/ /\ stdout' = Append(stdout, result)
          /\ Exit(0)
          /\ UNCHANGED stderr
       \/ /\ TopLevelFault("stdout does not encode")
          /\ UNCHANGED stdout
    /\ UNCHANGED <<nlp, raw_text, invoked, locals, fault, result, call, frame>>

Next ==
    \/ LoadRecognizer
    \/ ReadInput
    \/ CallContact
    \/ CallSkills
    \/ CallExperience
    \/ CallEducation
    \/ BuildResult
    \/ PrintResult

Spec == Init /\ [][Next]_vars

----------------------------------------------------------------------------
(* The functions called on their own, each on a family of texts            *)

\* a call of fn on one of texts, the recognizer being loaded
InitCall(fn, texts) ==
    /\ pc = "call"
    /\ nlp = "loaded"
    /\ raw_text = NotRead
    /\ invoked = <<>>
    /\ locals = Unset
    /\ fault = Unset
    /\ result = Unset
    /\ stdout = <<>>
    /\ stderr = <<>>
    /\ exit_status = -1
    /\ call \in {[fn |-> fn, text |-> t] : t \in texts}
    /\ frame = Unset

Returned(fn) == pc = "returned" /\ call.fn = fn

MaxSectionBlocks == 3

SectionBlocks ==
    { Chars("Experience\n"),
      Chars("2020 Engineer at Acme Corp, data tools.\n"),
      Chars("Experienced in SQL; Degree pending\n"),
      Chars("Work History and education: led projects\n"),
      Chars("\n  Awards\nSkills\n") }

InitSection ==
    InitCall("extract_section", TextsUpTo(SectionBlocks, MaxSectionBlocks))

\* extract_section(text, keywords), with its locals
CallExtractSection ==
    /\ pc = "call"
    /\ call.fn = "extract_section"
    /\ \E kws \in {ExperienceKeywords, EducationKeywords} :
       \E start \in {SectionStart(call.text, kws)} :
          frame' = [keywords  |-> kws,
                    start_pos |-> start,
                    end_pos   |-> IF start = -1 THEN -1
                                  ELSE SectionEnd(call.text, start),
                    value     |-> extract_section(call.text, kws)]
    /\ pc' = "returned"
    /\ UNCHANGED <<nlp, raw_text, invoked, locals, fault, result, stdout,
                   stderr, exit_status, call>>

NextSection == CallExtractSection

SpecSection == InitSection /\ [][NextSection]_vars

MaxContactFragments == 3

ContactFragments ==
    { Chars("+1 555 123 4567 "),
      Chars("555-123-4567 "),
      Chars("5551234567 "),
      Chars("call jane.doe@example.com "),
      Chars("12345 ") }

InitContact ==
    InitCall("extract_contact_info",
             TextsUpTo(ContactFragments, MaxContactFragments))

\* extract_contact_info(text)
CallExtractContact ==
    /\ pc = "call"
    /\ call.fn = "extract_contact_info"
    /\ \E ner \in NerAnswers :
          frame' = [ret |-> extract_contact_info(call.text, ner)]
    /\ pc' = "returned"
    /\ UNCHANGED <<nlp, raw_text, invoked, locals, fault, result, stdout,
                   stderr, exit_status, call>>

NextContact == CallExtractContact

SpecContact == InitContact /\ [][NextContact]_vars

MaxExperienceBlocks == 6

ExperienceBlocks ==
    { Chars("2021 Engineer at Acme\nbuilt tools\n"),
      Chars("2019 Dev              \n"),
      Chars("Intern 2018 at Initech, summer  \n") }

ExperienceTexts ==
    {Chars("Experience\n") \o t :
        t \in TextsUpTo(ExperienceBlocks, MaxExperienceBlocks)}

InitExperience == InitCall("extract_experience", ExperienceTexts)

\* extract_experience(text), with its local entries
CallExtractExperience ==
    /\ pc = "call"
    /\ call.fn = "extract_experience"
    /\ \E es \in {ExperienceEntries(call.text)} :
       \E ner \in NerAnswers :
          frame' = [entries |-> es, ret |-> ExperienceOf(es, ner)]
    /\ pc' = "returned"
    /\ UNCHANGED <<nlp, raw_text, invoked, locals, fault, result, stdout,
                   stderr, exit_status, call>>

NextExperience == CallExtractExperience

SpecExperience == InitExperience /\ [][NextExperience]_vars

MaxEducationBlocks == 3

EducationBlocks ==
    { Chars("Bachelor of Science, MIT 2015 - 2019\n"),
      Chars("Master of Arts 1999, thesis of 12020 pages\n"),
      Chars("PhD candidate, ongoing research\n"),
      Chars("2001 Diploma; renewed 2005s and 1899\n") }

EducationTexts ==
    {Chars("Education\n") \o t :
        t \in TextsUpTo(EducationBlocks, MaxEducationBlocks)}

InitEducation == InitCall("extract_education", EducationTexts)

\* extract_education(text), with its local entries
CallExtractEducation ==
    /\ pc = "call"
    /\ call.fn = "extract_education"
    /\ \E es \in {EducationEntries(call.text)} :
       \E ner \in NerAnswers :
          frame' = [entries |-> es, ret |-> EducationOf(es, ner)]
    /\ pc' = "returned"
    /\ UNCHANGED <<nlp, raw_text, invoked, locals, fault, result, stdout,
                   stderr, exit_status, call>>

NextEducation == CallExtractEducation

SpecEducation == InitEducation /\ [][NextEducation]_vars

----------------------------------------------------------------------------
(* The properties                                                          *)

SuccessKeys == {"contact", "skills", "experience", "education", "summary"}

\* the word w stands at position q of tl (1-based), as a whole word
WholeWordAt(tl, q, w) ==
    /\ q >= 1
    /\ q + Len(w) - 1 <= Len(tl)
    /\ \A i \in 1..Len(w) : tl[q + i - 1] = w[i]
    /\ ~IsWordAt(tl, q - 1)
    /\ ~IsWordAt(tl, q + Len(w))

\* the positions of tl at which w stands as a whole word
Occurrences(tl, w) == {q \in 1..Len(tl) : WholeWordAt(tl, q, w)}

\* the k-th smallest element of the set S of integers
Kth(S, k) == CHOOSE i \in S : Cardinality({j \in S : j <= i}) = k

MaxOf(S) == CHOOSE x \in S : \A y \in S : x >= y

\* C1: once an input shorter than 50 characters (the empty input included)
\* has been read, the process has ended with status 1, the one thing it
\* printed is an error result with skipped = true, and no extractor has
\* been invoked.
C1_ShortInputRejected ==
    (raw_text # NotRead /\ Len(raw_text) < MinInputLen) =>
        /\ pc = "exited"
        /\ exit_status = 1
        /\ Len(stdout) = 1
        /\ DOMAIN stdout[1] = {"error", "skipped"}
        /\ stdout[1].skipped = TRUE
        /\ stderr = <<>>
        /\ invoked = <<>>
        /\ result = Unset

C1_Witness ==
    /\ raw_text # NotRead
    /\ raw_text # <<>>
    /\ Len(raw_text) < MinInputLen
    /\ pc = "exited"
    /\ Len(stdout) = 1

\* C2: extract_resume_data always returns a result object; when an extractor
\* raised, what it returns is the error variant, with the description of the
\* fault and skipped = true and none of the success fields, and control is
\* back in the caller, which goes on to print it.
C2_FaultBecomesErrorResult ==
    /\ pc = "print" => result # Unset
    /\ fault # Unset =>
          /\ pc \in {"print", "exited"}
          /\ result # Unset
          /\ {"error", "skipped"} \subseteq DOMAIN result
          /\ result.error = fault.exc
          /\ result.skipped = TRUE
          /\ DOMAIN result \cap SuccessKeys = {}
          /\ (pc = "exited" /\ exit_status = 0) => stdout = <<result>>

C2_Witness ==
    /\ fault # Unset
    /\ fault.site = "education"
    /\ invoked = <<"contact", "skills", "experience", "education">>
    /\ pc = "exited"
    /\ stdout = <<result>>

\* C3, as stated: every result emitted by a run whose recognizer loaded (a
\* too-short input, an extraction failure caught by extract_resume_data, a
\* top-level fault, or a success) has either the five success keys or
\* exactly the keys error and skipped.
C3_ExactlyErrorAndSkipped ==
    nlp = "loaded" =>
        /\ \A i \in 1..Len(stdout) :
              \/ DOMAIN stdout[i] = SuccessKeys
              \/ DOMAIN stdout[i] = {"error", "skipped"}
        /\ \A i \in 1..Len(stderr) :
              \/ DOMAIN stderr[i] = SuccessKeys
              \/ DOMAIN stderr[i] = {"error", "skipped"}

\* C3, amended: every object the program emits is a success result with all
\* five keys, or an error result, which carries error and none of the five
\* keys; the keys of an error result are error and skipped (= true) for a
\* too-short input and for a top-level fault, error, skipped (= true) and
\* reason for an extraction failure caught by extract_resume_data, and error
\* alone when the recognizer did not load.
C3_TwoShapes ==
    /\ \A i \in 1..Len(stdout) :
          \/ DOMAIN stdout[i] = SuccessKeys /\ fault = Unset
          \/ /\ DOMAIN stdout[i] = {"error", "skipped"}
             /\ stdout[i].skipped = TRUE
             /\ Len(raw_text) < MinInputLen
          \/ /\ DOMAIN stdout[i] = {"error", "skipped", "reason"}
             /\ stdout[i].skipped = TRUE
             /\ fault # Unset
    /\ \A i \in 1..Len(stderr) :
          \/ /\ DOMAIN stderr[i] = {"error", "skipped"}
             /\ stderr[i].skipped = TRUE
             /\ nlp = "loaded"
          \/ DOMAIN stderr[i] = {"error"} /\ nlp = "failed"
    /\ Len(stdout) + Len(stderr) <= 1
    /\ (pc = "exited" /\ fault # Unset /\ exit_status = 0) =>
          DOMAIN stdout[1] = {"error", "skipped", "reason"}
    /\ (pc = "exited" /\ fault = Unset /\ exit_status = 0) =>
          DOMAIN stdout[1] = SuccessKeys

C3_Witness ==
    /\ Len(stdout) = 1
    /\ DOMAIN stdout[1] = {"error", "skipped", "reason"}
    /\ exit_status = 0

\* C4: when the recognizer does not load, the process has ended with status
\* 1, the input was never read and no extractor was invoked; an extractor is
\* invoked, and the input is read, only in a run whose recognizer is loaded.
C4_RecognizerLoadedFirst ==
    /\ nlp = "failed" =>
          /\ pc = "exited"
          /\ exit_status = 1
          /\ raw_text = NotRead
          /\ invoked = <<>>
          /\ stdout = <<>>
    /\ invoked # <<>> => nlp = "loaded"
    /\ raw_text # NotRead => nlp = "loaded"
    /\ pc = "load" => raw_text = NotRead /\ invoked = <<>>

C4_Witness ==
    /\ nlp = "failed"
    /\ pc = "exited"
    /\ exit_status = 1
    /\ Len(stderr) = 1

\* none of the experience synonyms and none of the education synonyms
\* occurs in t as a whole word
NoHeading(t) ==
    \A kws \in {ExperienceKeywords, EducationKeywords} :
        \A i \in 1..Len(kws) : Occurrences(lower(t), kws[i]) = {}

\* C6: on a document of at least 50 characters in which no experience or
\* education synonym occurs as a whole word, both extractors return the
\* empty list and neither of them raises; contact and skill extraction are
\* still performed; and unless the recognizer itself raised inside contact
\* extraction, the result is the success result, with totalExperience = 0
\* and totalEducation = 0.
C6_NoHeadingsIsNotAnError ==
    (raw_text # NotRead /\ Len(raw_text) >= MinInputLen /\ NoHeading(raw_text)) =>
        /\ "experience" \in DOMAIN locals => locals.experience = <<>>
        /\ "education" \in DOMAIN locals => locals.education = <<>>
        /\ fault # Unset => fault.site = "contact"
        /\ (pc \in {"print", "exited"} /\ fault = Unset) =>
              /\ DOMAIN result = SuccessKeys
              /\ invoked = <<"contact", "skills", "experience", "education">>
              /\ result.contact = locals.contact
              /\ result.skills = locals.skills
              /\ result.experience = <<>>
              /\ result.education = <<>>
              /\ result.summary.totalExperience = 0
              /\ result.summary.totalEducation = 0

C6_Witness ==
    /\ raw_text # NotRead
    /\ Len(raw_text) >= MinInputLen
    /\ NoHeading(raw_text)
    /\ pc = "exited"
    /\ exit_status = 0
    /\ fault = Unset
    /\ stdout = <<result>>
    /\ result.summary.totalExperience = 0
    /\ result.summary.totalEducation = 0
    /\ result.summary.totalSkills > 0
    /\ result.contact.email # None

----------------------------------------------------------------------------
(* The properties of the extractors                                        *)

\* C8: extract_section starts at the first whole-word occurrence of the
\* earliest keyword of its list that occurs anywhere in the lower-cased
\* text, whatever the positions of the later keywords, and it returns None
\* exactly when no keyword occurs.
C8_StartBySynonymOrder ==
    Returned("extract_section") =>
        LET tl    == lower(call.text)
            kws   == frame.keywords
            found == {i \in 1..Len(kws) : Occurrences(tl, kws[i]) # {}}
        IN  IF found = {}
            THEN frame.start_pos = -1 /\ frame.value = None
            ELSE /\ frame.start_pos = MinOf(Occurrences(tl, kws[MinOf(found)])) - 1
                 /\ frame.value # None

C8_Witness ==
    /\ Returned("extract_section")
    /\ frame.start_pos >= 0
    /\ LET tl    == lower(call.text)
           kws   == frame.keywords
           found == {i \in 1..Len(kws) : Occurrences(tl, kws[i]) # {}}
       IN  \E j \in found :
              /\ j > MinOf(found)
              /\ MinOf(Occurrences(tl, kws[j])) - 1 < frame.start_pos

\* at position q (0-based) of tl there is a line break, then optional white
\* space, then one of the section headers as a whole word
HeaderLineAt(tl, q) ==
    /\ q + 1 <= Len(tl)
    /\ tl[q + 1] = "\n"
    /\ \E k \in 1..Len(section_headers) :
          \E w \in 0..(Len(tl) - q - 1) :
              /\ \A i \in 1..w : tl[q + 1 + i] \in Space
              /\ WholeWordAt(tl, q + 2 + w, section_headers[k])

\* C9, as stated: the section ends at the least position, strictly after
\* start + 50, at which a section header occurs as a whole word, or at the
\* end of the document, and the section is the text from start to end.
C9_EndAtNextHeaderWord ==
    (Returned("extract_section") /\ frame.start_pos # -1) =>
        LET tl    == lower(call.text)
            start == frame.start_pos
            cands == {q \in (start + HeaderSkip + 1)..(Len(tl) - 1) :
                        \E k \in 1..Len(section_headers) :
                            WholeWordAt(tl, q + 1, section_headers[k])}
            end   == IF cands = {} THEN Len(tl) ELSE MinOf(cands)
        IN  /\ frame.end_pos = end
            /\ frame.value = SubSeq(call.text, start + 1, end)

\* C9, amended: the section ends at the least position, at or after
\* start + 50, of a line break that is followed, after optional white
\* space, by a section header as a whole word (the end is the position of
\* the line break, not of the header, and a header in the middle of a line
\* does not end the section), or at the end of the document; the section is
\* the text from start to end.
C9_EndAtHeaderLine ==
    (Returned("extract_section") /\ frame.start_pos # -1) =>
        LET tl    == lower(call.text)
            start == frame.start_pos
            cands == {q \in (start + HeaderSkip)..(Len(tl) - 1) : HeaderLineAt(tl, q)}
            end   == IF cands = {} THEN Len(tl) ELSE MinOf(cands)
        IN  /\ frame.end_pos = end
            /\ frame.value = SubSeq(call.text, start + 1, end)

C9_Witness ==
    /\ Returned("extract_section")
    /\ frame.start_pos # -1
    /\ frame.end_pos < Len(call.text)
    /\ \E q \in frame.start_pos..(frame.start_pos + HeaderSkip - 1) :
          HeaderLineAt(lower(call.text), q)
    /\ \E q \in (frame.end_pos + 1)..(Len(call.text) - 1) :
          HeaderLineAt(lower(call.text), q)

\* the positions of t at which the i-th phone pattern matches
PhoneHits(t, i) == {q \in 1..Len(t) : MatchAt(t, q, phone_patterns[i]) # 0}

\* C10: the phone is the leftmost match of the first pattern, in the order
\* of the list, that matches anywhere in the text, wherever the later
\* patterns match; it is None exactly when no pattern matches.
C10_PhoneByPatternOrder ==
    (Returned("extract_contact_info") /\ ~frame.ret.raised) =>
        LET t     == call.text
            found == {i \in 1..Len(phone_patterns) : PhoneHits(t, i) # {}}
            phone == frame.ret.value.phone
        IN  IF found = {}
            THEN phone = None
            ELSE LET i == MinOf(found)
                     q == MinOf(PhoneHits(t, i))
                 IN  /\ phone # None
                     /\ phone = SubSeq(t, q, MatchAt(t, q, phone_patterns[i]) - 1)

C10_Witness ==
    /\ Returned("extract_contact_info")
    /\ ~frame.ret.raised
    /\ frame.ret.value.phone # None
    /\ LET t     == call.text
           found == {i \in 1..Len(phone_patterns) : PhoneHits(t, i) # {}}
       IN  \E j \in found :
              /\ j > MinOf(found)
              /\ MinOf(PhoneHits(t, j)) < MinOf(PhoneHits(t, MinOf(found)))

\* the candidates of es that are kept: those of at least min characters
\* once stripped
Survivors(es, min) == {i \in 1..Len(es) : Len(strip(es[i])) >= min}

\* C5: extract_experience returns at most 5 entries; they are the first
\* candidates, in document order, that survive the length filter; and none
\* of them comes from a candidate whose raw length was under 20.
C5_ExperienceCapped ==
    (Returned("extract_experience") /\ ~frame.ret.raised) =>
        LET es   == frame.entries
            out  == frame.ret.value
            surv == Survivors(es, MinExperienceEntry)
        IN  /\ Len(out) <= MaxExperience
            /\ Len(out) = Min(MaxExperience, Cardinality(surv))
            /\ \A k \in 1..Len(out) :
                  LET src == es[Kth(surv, k)]
                  IN  /\ Len(src) >= MinExperienceEntry
                      /\ out[k].description =
                            SubSeq(strip(src), 1, Min(Len(strip(src)), DescriptionLen))

C5_Witness ==
    /\ Returned("extract_experience")
    /\ ~frame.ret.raised
    /\ Len(frame.ret.value) = MaxExperience
    /\ Cardinality(Survivors(frame.entries, MinExperienceEntry)) > MaxExperience
    /\ 1 \notin Survivors(frame.entries, MinExperienceEntry)
    /\ frame.ret.value[1].description # frame.ret.value[MaxExperience].description

\* a 19xx or 20xx token stands at position p of e (1-based), with no word
\* character on either side
YearTokenAt(e, p) ==
    /\ p >= 1
    /\ p + 3 <= Len(e)
    /\ <<e[p], e[p + 1]>> \in {<<"1", "9">>, <<"2", "0">>}
    /\ e[p + 2] \in Digit
    /\ e[p + 3] \in Digit
    /\ ~IsWordAt(e, p - 1)
    /\ ~IsWordAt(e, p + 4)

YearTokens(e) == {p \in 1..Len(e) : YearTokenAt(e, p)}

\* C7: the year of every education entry returned is the last 19xx/20xx
\* token of the text of the candidate it comes from, and it is None exactly
\* when that text has no such token.
C7_YearIsLastToken ==
    (Returned("extract_education") /\ ~frame.ret.raised) =>
        LET es   == frame.entries
            out  == frame.ret.value
            surv == Survivors(es, MinEducationEntry)
        IN  /\ Len(out) = Min(MaxEducation, Cardinality(surv))
            /\ \A k \in 1..Len(out) :
                  LET e    == es[Kth(surv, k)]
                      toks == YearTokens(e)
                  IN  IF toks = {}
                      THEN out[k].year = None
                      ELSE /\ out[k].year # None
                           /\ out[k].year = SubSeq(e, MaxOf(toks), MaxOf(toks) + 3)

C7_Witness ==
    /\ Returned("extract_education")
    /\ ~frame.ret.raised
    /\ LET es   == frame.entries
           out  == frame.ret.value
           surv == Survivors(es, MinEducationEntry)
       IN  /\ \E k \in 1..Len(out) :
                LET e    == es[Kth(surv, k)]
                    toks == YearTokens(e)
                IN  /\ Cardinality(toks) >= 2
                    /\ out[k].year = SubSeq(e, MaxOf(toks), MaxOf(toks) + 3)
                    /\ out[k].year # SubSeq(e, MinOf(toks), MinOf(toks) + 3)
           /\ \E k \in 1..Len(out) : out[k].year = None

====
